---- MODULE Spec2Model ----
(***************************************************************************)
(* A model of the bitset library of jason-conway/cube (src/bitset.h,       *)
(* src/bitset.c).                                                          *)
(*                                                                         *)
(* A bitset is an array of 64-bit lanes.  Lane 0 is the packed header      *)
(* setfields_t (size: bits 0..31, flags: bits 32..47, tag: bits 48..63 on  *)
(* the little-endian LP64 targets the code is built for); lanes 1..size    *)
(* are the payload.  A 64-bit word is modelled as the set of the positions *)
(* of its one bits (bit 0 is the least significant), so that &, |, ^, ~,   *)
(* the shifts, the casts and the unsigned wrap-around are computed at      *)
(* their full width.                                                       *)
(***************************************************************************)
EXTENDS Integers, FiniteSets, Sequences, TLC

\* -------------------------------------------------------------- constants
WordBits == 64
SizeLo == 0
SizeBits == 32
FlagsLo == 32
FlagsBits == 16
TagLo == 48
TagBits == 16
ElemShift == 6
ElemMask == 63
SET_ACTIVE == 1
SET_CAN_BE_FREED == 4

\* ----------------------------------------------------------------- bounds
\* The largest allocation the modelled heap serves, in lanes (header included).
HeapLanes == 1026
\* The largest element count the constructor specification draws.
MaxElems == 130
\* The tag the main specification stores with bitset_set_tag.
TagValue == 7
\* The largest element capacity of the bitsets of the algebra specification.
AlgElems == 70

\* ------------------------------------------------------------ 64-bit words
Bits == 0 .. (WordBits - 1)
UINT64_MAX == Bits
Zero == {}

\* The word of a small natural number (n < 2^31).
BitsOf(n) == {i \in 0 .. 30 : (n \div (2 ^ i)) % 2 = 1}

\* The natural number of a word with no bit above bit 30.
RECURSIVE Val(_)
Val(w) == IF w = {} THEN 0
          ELSE LET k == CHOOSE i \in w : \A j \in w : j <= i
               IN (2 ^ k) + Val(w \ {k})

\* Whether a word is small enough to be used as a number in the model.
Small(w) == \A i \in w : i <= 30

\* x - 1 and x + 1 on a 64-bit unsigned word, with wrap-around.
WDec(x) == IF x = {} THEN Bits
           ELSE LET k == CHOOSE i \in x : \A j \in x : i <= j
                IN (x \ {k}) \cup (0 .. (k - 1))
WInc(x) == IF x = Bits THEN {}
           ELSE LET k == CHOOSE i \in Bits \ x : \A j \in Bits \ x : i <= j
                IN (x \ (0 .. (k - 1))) \cup {k}

\* x >> k and x << k on a 64-bit unsigned word.
WShr(x, k) == {i - k : i \in {j \in x : j >= k}}
WShl(x, k) == {i + k : i \in {j \in x : j + k < WordBits}}

WAnd(x, y) == x \cap y
WOr(x, y) == x \cup y
WXor(x, y) == (x \ y) \cup (y \ x)
WNot(x) == Bits \ x

popcountll(x) == Cardinality(x)

\* The literal 1ull.
ONE == BitsOf(1)

\* ------------------------------------------------------------ header lane
\* The field of `width` bits at bit `lo` of word w, as a word.
Field(w, lo, width) == {i - lo : i \in {j \in w : lo <= j /\ j < lo + width}}

\* Word w with that field set to v cast to `width` bits.
StoreField(w, lo, width, v) ==
    (w \ (lo .. (lo + width - 1))) \cup {i + lo : i \in {j \in v : j < width}}

bitset_get_size(set) == Val(Field(set[0], SizeLo, SizeBits))
bitset_get_flags(set) == Field(set[0], FlagsLo, FlagsBits)
bitset_get_tag(set) == Val(Field(set[0], TagLo, TagBits))

bitset_set_size(set, val) ==
    [set EXCEPT ![0] = StoreField(@, SizeLo, SizeBits, val)]

bitset_get_flag(set, flag) == WAnd(bitset_get_flags(set), BitsOf(flag)) # {}

bitset_set_flag(set, flag) ==
    [set EXCEPT ![0] = StoreField(@, FlagsLo, FlagsBits,
        WOr(Field(@, FlagsLo, FlagsBits), Field(BitsOf(flag), 0, FlagsBits)))]

bitset_clear_flag(set, flag) ==
    [set EXCEPT ![0] = StoreField(@, FlagsLo, FlagsBits,
        WAnd(Field(@, FlagsLo, FlagsBits),
             (0 .. (FlagsBits - 1)) \ Field(BitsOf(flag), 0, FlagsBits)))]

bitset_set_tag(set, val) ==
    [set EXCEPT ![0] = StoreField(@, TagLo, TagBits, val)]

\* tag++ and tag-- on the 16-bit field: 0xffff steps up to 0, 0 down to 0xffff.
bitset_inc_key(set) ==
    [set EXCEPT ![0] = StoreField(@, TagLo, TagBits, WInc(Field(@, TagLo, TagBits)))]

bitset_dec_tag(set) ==
    [set EXCEPT ![0] = StoreField(@, TagLo, TagBits, WDec(Field(@, TagLo, TagBits)))]

BITSET_COPY_FIELD_size(dst, src) ==
    [dst EXCEPT ![0] = StoreField(@, SizeLo, SizeBits, Field(src[0], SizeLo, SizeBits))]

\* ------------------------------------------------------------- addressing
\* ELEM_WORD without the header lane skipped.
ELEM_WORD_no_header(elem) == elem \div (2 ^ ElemShift)

ELEM_WORD(elem) == 1 + (elem \div (2 ^ ElemShift))
ELEM_BIT(elem) == elem % (ElemMask + 1)

\* REQ_SZ on size_t: 2 + ((elems - 1) >> 6), elems a 64-bit word.
REQ_SZ(elems) == WInc(WInc(WShr(WDec(elems), ElemShift)))

\* ---------------------------------------------------------------- storage
\* The storage behind a pointer: a function from lane index to word.  The null
\* pointer has no lanes.
NULL == [i \in {} |-> Zero]
Lanes(set) == Cardinality(DOMAIN set)
Zeroed(n) == [i \in 0 .. (n - 1) |-> Zero]

\* calloc serves a request of w lanes (w a size_t word) when the heap can hold it.
CanAlloc(w) == Small(w) /\ Val(w) <= HeapLanes

\* Lane i is one the loop `for (i = n; i > 0; i--)` visits.
Looped(i, n) == 1 <= i /\ i <= n

\* memset(set, 0, n lanes) and memcpy(dst, src, n lanes).
memset0(set, n) == [i \in DOMAIN set |-> IF i < n THEN Zero ELSE set[i]]
memcpy(dst, src, n) == [i \in DOMAIN dst |-> IF i < n THEN src[i] ELSE dst[i]]

\* malloc(n lanes): storage whose content is indeterminate (every lane `junk`).
xmalloc(n, junk) == [i \in 0 .. (n - 1) |-> junk]
\* calloc(n lanes): zeroed storage.
xcalloc(n) == Zeroed(n)

\* ------------------------------------------------------ bitset.c functions
bitset_new(elements) ==
    LET w == REQ_SZ(BitsOf(elements))
        set == xcalloc(Val(w))
    IN bitset_set_size(set, WDec(w))

bitset_get(set, index) ==
    LET word == ELEM_WORD(index)
        bit == ELEM_BIT(index)
    IN WAnd(set[word], WShl(ONE, bit)) # Zero

bitset_set(set, index) ==
    LET word == ELEM_WORD(index)
        bit == ELEM_BIT(index)
    IN [set EXCEPT ![word] = WOr(@, WShl(ONE, bit))]

bitset_clear(set, index) ==
    LET word == ELEM_WORD(index)
        bit == ELEM_BIT(index)
    IN [set EXCEPT ![word] = WAnd(@, WNot(WShl(ONE, bit)))]

bitset_dupl(set, junk) ==
    LET len == bitset_get_size(set) + 1
        dupl == xmalloc(len, junk)
    IN memcpy(dupl, set, len)

\* bitset_copy without the header lane in its length.
bitset_copy_short(dst, src) ==
    LET len == bitset_get_size(src)
    IN memcpy(dst, src, len)

bitset_copy(dst, src) ==
    LET len == bitset_get_size(src)
    IN memcpy(dst, src, len + 1)

bitset_null(set, elements) ==
    LET w == REQ_SZ(BitsOf(elements))
    IN bitset_set_size(memset0(set, Val(w)), WDec(w))

\* bitset_reset with the memset one lane short.
bitset_reset_short(set) ==
    LET w == bitset_get_size(set)
    IN bitset_set_size(memset0(set, w), BitsOf(w))

\* bitset_reset clearing the payload lanes only.
bitset_reset_payload_only(set) ==
    LET w == bitset_get_size(set)
    IN bitset_set_size([i \in DOMAIN set |->
        IF Looped(i, w) THEN Zero ELSE set[i]], BitsOf(w))

bitset_reset(set) ==
    LET w == bitset_get_size(set)
    IN bitset_set_size(memset0(set, w + 1), BitsOf(w))

\* bitset_universe without the shift that masks the last lane.
bitset_universe_unmasked(set, elements) ==
    LET s0 == [set EXCEPT ![0] = Zero]
        w == Val(WDec(REQ_SZ(BitsOf(elements))))
        s1 == [i \in DOMAIN s0 |->
        IF Looped(i, w) THEN UINT64_MAX ELSE s0[i]]
    IN bitset_set_size(s1, BitsOf(w))

bitset_universe(set, elements) ==
    LET s0 == [set EXCEPT ![0] = Zero]
        w == Val(WDec(REQ_SZ(BitsOf(elements))))
        s1 == [i \in DOMAIN s0 |->
        IF Looped(i, w) THEN UINT64_MAX ELSE s0[i]]
        s2 == [s1 EXCEPT ![w] = WShr(@, 64 * w - elements)]
    IN bitset_set_size(s2, BitsOf(w))

\* bitset_equal comparing from the header lane on.
bitset_equal_with_header(a, b) ==
    LET len == bitset_get_size(a)
    IN \A i \in 0 .. len : a[i] = b[i]

bitset_equal(a, b) ==
    LET len == bitset_get_size(a)
    IN \A i \in 1 .. len : a[i] = b[i]

\* The loop `for (i = n; i > 0; i--) sum += __builtin_popcountll(set[i])`: the
\* sum over lanes lo .. hi, added up by halves (the order of an unsigned sum
\* does not change it) so that a thousand lanes do not nest a thousand deep.
RECURSIVE PopSum(_, _, _)
PopSum(set, lo, hi) ==
    IF lo > hi THEN 0
    ELSE IF lo = hi THEN popcountll(set[lo])
    ELSE LET mid == (lo + hi) \div 2
         IN PopSum(set, lo, mid) + PopSum(set, mid + 1, hi)

bitset_ord(set) == PopSum(set, 1, bitset_get_size(set))

\* bitset_tag_ord with the loop ending one lane early (i > 1).
bitset_tag_ord_skip(set) ==
    LET sum == PopSum(set, 2, bitset_get_size(set))
    IN bitset_set_tag(set, BitsOf(sum))

bitset_tag_ord(set) ==
    LET sum == PopSum(set, 1, bitset_get_size(set))
    IN bitset_set_tag(set, BitsOf(sum))

\* The loop `for (i = n; i > 0; i--) sum += __builtin_popcountll(a[i] & b[i])`.
RECURSIVE DistSum(_, _, _, _)
DistSum(a, b, lo, hi) ==
    IF lo > hi THEN 0
    ELSE IF lo = hi THEN popcountll(WAnd(a[lo], b[lo]))
    ELSE LET mid == (lo + hi) \div 2
         IN DistSum(a, b, lo, mid) + DistSum(a, b, mid + 1, hi)

bitset_dist(a, b) == DistSum(a, b, 1, bitset_get_size(a))

bitset_and(r, a, b) ==
    LET r0 == BITSET_COPY_FIELD_size(r, a)
    IN [i \in DOMAIN r0 |->
        IF Looped(i, bitset_get_size(r0)) THEN WAnd(a[i], b[i]) ELSE r0[i]]

bitset_and_inplace(a, b) ==
    [i \in DOMAIN a |->
        IF Looped(i, bitset_get_size(a)) THEN WAnd(a[i], b[i]) ELSE a[i]]

bitset_or(r, a, b) ==
    LET r0 == BITSET_COPY_FIELD_size(r, a)
    IN [i \in DOMAIN r0 |->
        IF Looped(i, bitset_get_size(r0)) THEN WOr(a[i], b[i]) ELSE r0[i]]

bitset_or_inplace(a, b) ==
    [i \in DOMAIN a |->
        IF Looped(i, bitset_get_size(a)) THEN WOr(a[i], b[i]) ELSE a[i]]

bitset_xand(r, a, b) ==
    [i \in DOMAIN r |->
        IF Looped(i, bitset_get_size(a)) THEN WAnd(r[i], WXor(a[i], b[i])) ELSE r[i]]

\* bitset_diff with | for &.
bitset_diff_or(r, a, b) ==
    LET r0 == BITSET_COPY_FIELD_size(r, a)
    IN [i \in DOMAIN r0 |->
        IF Looped(i, bitset_get_size(r0)) THEN WOr(a[i], WNot(b[i])) ELSE r0[i]]

bitset_diff(r, a, b) ==
    LET r0 == BITSET_COPY_FIELD_size(r, a)
    IN [i \in DOMAIN r0 |->
        IF Looped(i, bitset_get_size(r0)) THEN WAnd(a[i], WNot(b[i])) ELSE r0[i]]

bitset_diff_inplace(a, b) ==
    [i \in DOMAIN a |->
        IF Looped(i, bitset_get_size(a)) THEN WAnd(a[i], WNot(b[i])) ELSE a[i]]

\* Writes b: the result is the new storage of b.
bitset_diff_inplace_alt(a, b) ==
    [i \in DOMAIN b |->
        IF Looped(i, bitset_get_size(a)) THEN WAnd(a[i], WNot(b[i])) ELSE b[i]]

bitset_symmetric_diff_union(r, a, b, c) ==
    LET r0 == BITSET_COPY_FIELD_size(r, a)
    IN [i \in DOMAIN r0 |->
        IF Looped(i, bitset_get_size(r0)) THEN WOr(a[i], WAnd(b[i], WNot(c[i]))) ELSE r0[i]]

bitset_mask_inplace(a, b) ==
    [i \in DOMAIN a |->
        IF Looped(i, bitset_get_size(a)) THEN WAnd(a[i], WNot(WAnd(a[i], WNot(b[i])))) ELSE a[i]]

bitset_empty(a) == \A i \in 1 .. bitset_get_size(a) : a[i] = Zero

\* bitset_merge with a and b exchanged in the identity.
bitset_merge_swapped(r, a, b, c) ==
    LET r0 == BITSET_COPY_FIELD_size(r, a)
    IN [i \in DOMAIN r0 |->
        IF Looped(i, bitset_get_size(r0)) THEN WXor(a[i], WAnd(WXor(a[i], b[i]), c[i])) ELSE r0[i]]

bitset_merge(r, a, b, c) ==
    LET r0 == BITSET_COPY_FIELD_size(r, a)
    IN [i \in DOMAIN r0 |->
        IF Looped(i, bitset_get_size(r0)) THEN WXor(b[i], WAnd(WXor(b[i], a[i]), c[i])) ELSE r0[i]]

bitset_disjoint(a, b) ==
    \A i \in 1 .. bitset_get_size(a) : WAnd(a[i], b[i]) = Zero

bitset_implies(a, b) ==
    \A i \in 1 .. bitset_get_size(a) : WAnd(a[i], WNot(b[i])) = Zero

bitset_implies_alt(a, b) ==
    \A i \in 1 .. bitset_get_size(a) : WAnd(WNot(a[i]), b[i]) = Zero

\* ------------------------------------------------------------------ state
\* heap: the storage behind each pointer the caller holds (NULL: none).
\* pre:  the heap as it was when the last call was made.
\* call: the last call: its name, its pointer arguments (r the written one),
\*       its integer argument n and what it returned (a bool as 0/1; for
\*       bitset_new and bitset_dupl 1 when storage was returned, 0 when the
\*       allocator aborted the process).
\* cap:  the element capacity the caller declared for its bitsets, in the
\*       specification that keeps them at one capacity (0 elsewhere).
VARIABLES heap, pre, call, cap
vars == <<heap, pre, call, cap>>

Ptr == {"r", "a", "b", "c"}
None == "-"

Call(op, r, a, b, c, n, ret) ==
    [op |-> op, r |-> r, a |-> a, b |-> b, c |-> c, n |-> n, ret |-> ret]

Bool(x) == IF x THEN 1 ELSE 0

\* Between calls: the caller has taken the last result and makes the next call.
Start == Call("init", None, None, None, None, 0, 0)
Idle == call = Start

\* abort() has ended the process.
Aborted == call.op \in {"new", "dupl"} /\ call.ret = 0

\* p points to a bitset whose header names no more lanes than its storage has.
Live(p) ==
    /\ heap[p] # NULL
    /\ Small(Field(heap[p][0], SizeLo, SizeBits))
    /\ bitset_get_size(heap[p]) + 1 <= Lanes(heap[p])

\* p points to storage: the header macros read and write lane 0 alone.
Allocated(p) == heap[p] # NULL

\* The tag counts within 0 .. TagValue + 1 and across the wrap at 0xffff.
TagLow(p) == Small(Field(heap[p][0], TagLo, TagBits)) /\ bitset_get_tag(heap[p]) <= TagValue
TagTop(p) == Field(heap[p][0], TagLo, TagBits) = 0 .. (TagBits - 1)

\* The storage behind p can hold a bitset of `elements` bits.
Fits(p, elements) ==
    /\ heap[p] # NULL
    /\ Small(REQ_SZ(BitsOf(elements)))
    /\ Val(REQ_SZ(BitsOf(elements))) <= Lanes(heap[p])

\* Operands of one capacity, as every multi-operand function requires.
SameSize(p, q) ==
    /\ Live(p) /\ Live(q)
    /\ bitset_get_size(heap[p]) = bitset_get_size(heap[q])

\* r can take a result of a's size.
Room(r, a) == heap[r] # NULL /\ Live(a) /\ bitset_get_size(heap[a]) + 1 <= Lanes(heap[r])

\* Index i is below the capacity of the bitset at p.
InRange(p, i) == Live(p) /\ i < WordBits * bitset_get_size(heap[p])

Returns(op, r, a, b, c, n, ret) ==
    /\ pre' = heap
    /\ call' = Call(op, r, a, b, c, n, ret)
    /\ UNCHANGED cap

Writes(p, set) == heap' = [heap EXCEPT ![p] = set]

\* ---------------------------------------------------------------- actions
\* Every function is one action: enabled between calls, it leaves the heap as
\* the function leaves it, with the call and the heap it was made on recorded.
\* Return is the caller taking the result; after an abort there is no caller.
Return ==
    /\ ~Idle
    /\ ~Aborted
    /\ UNCHANGED <<heap, cap>>
    /\ pre' = heap
    /\ call' = Start

New(p, elements) ==
    /\ Idle
    /\ heap[p] = NULL
    /\ IF CanAlloc(REQ_SZ(BitsOf(elements)))
       THEN /\ Writes(p, bitset_new(elements))
            /\ Returns("new", p, None, None, None, elements, 1)
       ELSE /\ UNCHANGED heap
            /\ Returns("new", p, None, None, None, elements, 0)

Free(p) ==
    /\ Idle
    /\ heap[p] # NULL
    /\ Writes(p, NULL)
    /\ Returns("free", p, None, None, None, 0, 0)

Null(p, elements) ==
    /\ Idle
    /\ Fits(p, elements)
    /\ Writes(p, bitset_null(heap[p], elements))
    /\ Returns("null", p, None, None, None, elements, 0)

Reset(p) ==
    /\ Idle
    /\ Live(p)
    /\ Writes(p, bitset_reset(heap[p]))
    /\ Returns("reset", p, None, None, None, 0, 0)

Universe(p, elements) ==
    /\ Idle
    /\ Fits(p, elements)
    /\ Writes(p, bitset_universe(heap[p], elements))
    /\ Returns("universe", p, None, None, None, elements, 0)

Get(p, i) ==
    /\ Idle
    /\ InRange(p, i)
    /\ UNCHANGED heap
    /\ Returns("get", None, p, None, None, i, Bool(bitset_get(heap[p], i)))

Set(p, i) ==
    /\ Idle
    /\ InRange(p, i)
    /\ Writes(p, bitset_set(heap[p], i))
    /\ Returns("set", p, None, None, None, i, 0)

Clear(p, i) ==
    /\ Idle
    /\ InRange(p, i)
    /\ Writes(p, bitset_clear(heap[p], i))
    /\ Returns("clear", p, None, None, None, i, 0)

Dupl(dst, src, junk) ==
    /\ Idle
    /\ heap[dst] = NULL
    /\ Live(src)
    /\ IF CanAlloc(BitsOf(bitset_get_size(heap[src]) + 1))
       THEN /\ Writes(dst, bitset_dupl(heap[src], junk))
            /\ Returns("dupl", dst, src, None, None, 0, 1)
       ELSE /\ UNCHANGED heap
            /\ Returns("dupl", dst, src, None, None, 0, 0)

Copy(dst, src) ==
    /\ Idle
    /\ dst # src
    /\ Room(dst, src)
    /\ Writes(dst, bitset_copy(heap[dst], heap[src]))
    /\ Returns("copy", dst, src, None, None, 0, 0)

SetSize(p, val) ==
    /\ Idle
    /\ Allocated(p)
    /\ Writes(p, bitset_set_size(heap[p], BitsOf(val)))
    /\ Returns("set_size", p, None, None, None, val, 0)

SetFlag(p, flag) ==
    /\ Idle
    /\ Allocated(p)
    /\ Writes(p, bitset_set_flag(heap[p], flag))
    /\ Returns("set_flag", p, None, None, None, flag, 0)

ClearFlag(p, flag) ==
    /\ Idle
    /\ Allocated(p)
    /\ Writes(p, bitset_clear_flag(heap[p], flag))
    /\ Returns("clear_flag", p, None, None, None, flag, 0)

SetTag(p, val) ==
    /\ Idle
    /\ Allocated(p)
    /\ Writes(p, bitset_set_tag(heap[p], BitsOf(val)))
    /\ Returns("set_tag", p, None, None, None, val, 0)

IncKey(p) ==
    /\ Idle
    /\ Allocated(p)
    /\ TagLow(p) \/ TagTop(p)
    /\ Writes(p, bitset_inc_key(heap[p]))
    /\ Returns("inc_key", p, None, None, None, 0, 0)

DecTag(p) ==
    /\ Idle
    /\ Allocated(p)
    /\ TagLow(p) \/ bitset_get_tag(bitset_dec_tag(heap[p])) = TagValue
    /\ Writes(p, bitset_dec_tag(heap[p]))
    /\ Returns("dec_tag", p, None, None, None, 0, 0)

TagOrd(p) ==
    /\ Idle
    /\ Live(p)
    /\ Writes(p, bitset_tag_ord(heap[p]))
    /\ Returns("tag_ord", p, None, None, None, 0, 0)

Ord(p) ==
    /\ Idle
    /\ Live(p)
    /\ UNCHANGED heap
    /\ Returns("ord", None, p, None, None, 0, bitset_ord(heap[p]))

Empty(p) ==
    /\ Idle
    /\ Live(p)
    /\ UNCHANGED heap
    /\ Returns("empty", None, p, None, None, 0, Bool(bitset_empty(heap[p])))

Equal(a, b) ==
    /\ Idle
    /\ SameSize(a, b)
    /\ UNCHANGED heap
    /\ Returns("equal", None, a, b, None, 0, Bool(bitset_equal(heap[a], heap[b])))

Dist(a, b) ==
    /\ Idle
    /\ SameSize(a, b)
    /\ UNCHANGED heap
    /\ Returns("dist", None, a, b, None, 0, bitset_dist(heap[a], heap[b]))

Disjoint(a, b) ==
    /\ Idle
    /\ SameSize(a, b)
    /\ UNCHANGED heap
    /\ Returns("disjoint", None, a, b, None, 0, Bool(bitset_disjoint(heap[a], heap[b])))

Implies(a, b) ==
    /\ Idle
    /\ SameSize(a, b)
    /\ UNCHANGED heap
    /\ Returns("implies", None, a, b, None, 0, Bool(bitset_implies(heap[a], heap[b])))

ImpliesAlt(a, b) ==
    /\ Idle
    /\ SameSize(a, b)
    /\ UNCHANGED heap
    /\ Returns("implies_alt", None, a, b, None, 0,
               Bool(bitset_implies_alt(heap[a], heap[b])))

\* The out-of-place operations: r is restrict-qualified and written, so it is
\* no operand; the read-only operands may coincide.
And(r, a, b) ==
    /\ Idle
    /\ r \notin {a, b} /\ SameSize(a, b) /\ Room(r, a)
    /\ Writes(r, bitset_and(heap[r], heap[a], heap[b]))
    /\ Returns("and", r, a, b, None, 0, 0)

Or(r, a, b) ==
    /\ Idle
    /\ r \notin {a, b} /\ SameSize(a, b) /\ Room(r, a)
    /\ Writes(r, bitset_or(heap[r], heap[a], heap[b]))
    /\ Returns("or", r, a, b, None, 0, 0)

Diff(r, a, b) ==
    /\ Idle
    /\ r \notin {a, b} /\ SameSize(a, b) /\ Room(r, a)
    /\ Writes(r, bitset_diff(heap[r], heap[a], heap[b]))
    /\ Returns("diff", r, a, b, None, 0, 0)

SymmetricDiffUnion(r, a, b, c) ==
    /\ Idle
    /\ r \notin {a, b, c} /\ SameSize(a, b) /\ SameSize(a, c) /\ Room(r, a)
    /\ Writes(r, bitset_symmetric_diff_union(heap[r], heap[a], heap[b], heap[c]))
    /\ Returns("symmetric_diff_union", r, a, b, c, 0, 0)

Merge(r, a, b, c) ==
    /\ Idle
    /\ r \notin {a, b, c} /\ SameSize(a, b) /\ SameSize(a, c) /\ Room(r, a)
    /\ Writes(r, bitset_merge(heap[r], heap[a], heap[b], heap[c]))
    /\ Returns("merge", r, a, b, c, 0, 0)

\* xand reads and writes r over a's size without setting r's size.
Xand(r, a, b) ==
    /\ Idle
    /\ r \notin {a, b} /\ SameSize(a, b) /\ SameSize(r, a)
    /\ Writes(r, bitset_xand(heap[r], heap[a], heap[b]))
    /\ Returns("xand", r, a, b, None, 0, 0)

\* The in-place operations: the written operand is restrict-qualified, so the
\* two operands are distinct.
AndInplace(a, b) ==
    /\ Idle
    /\ a # b /\ SameSize(a, b)
    /\ Writes(a, bitset_and_inplace(heap[a], heap[b]))
    /\ Returns("and_inplace", a, None, b, None, 0, 0)

OrInplace(a, b) ==
    /\ Idle
    /\ a # b /\ SameSize(a, b)
    /\ Writes(a, bitset_or_inplace(heap[a], heap[b]))
    /\ Returns("or_inplace", a, None, b, None, 0, 0)

DiffInplace(a, b) ==
    /\ Idle
    /\ a # b /\ SameSize(a, b)
    /\ Writes(a, bitset_diff_inplace(heap[a], heap[b]))
    /\ Returns("diff_inplace", a, None, b, None, 0, 0)

DiffInplaceAlt(a, b) ==
    /\ Idle
    /\ a # b /\ SameSize(a, b)
    /\ Writes(b, bitset_diff_inplace_alt(heap[a], heap[b]))
    /\ Returns("diff_inplace_alt", b, a, None, None, 0, 0)

MaskInplace(a, b) ==
    /\ Idle
    /\ a # b /\ SameSize(a, b)
    /\ Writes(a, bitset_mask_inplace(heap[a], heap[b]))
    /\ Returns("mask_inplace", a, None, b, None, 0, 0)

\* ------------------------------------------------ constructor specification
\* bitset_new, bitset_null and bitset_universe as functions of their inputs:
\* the storage is drawn (none, zeroed as calloc leaves it, or all ones as
\* recycled memory may be), the element count is drawn from 0 .. MaxElems, and
\* one call is made.
NoHeap == [p \in Ptr |-> NULL]

CtorLanes == Val(REQ_SZ(BitsOf(MaxElems)))
PriorStorage == {xmalloc(n, junk) : n \in 2 .. CtorLanes, junk \in {Zero, UINT64_MAX}}

InitCtor ==
    /\ \E set \in {NULL} \cup PriorStorage : heap = [NoHeap EXCEPT !["a"] = set]
    /\ pre = heap
    /\ call = Start
    /\ cap = 0

NextCtor ==
    \/ \E e \in 0 .. MaxElems : New("a", e)
    \/ \E e \in 0 .. MaxElems : Null("a", e)
    \/ \E e \in 0 .. MaxElems : Universe("a", e)

SpecCtor == InitCtor /\ [][NextCtor]_vars

\* ------------------------------------------------------ main specification
\* The life of one bitset: created, filled, emptied, its elements and its
\* header fields set and cleared, freed and created again.
ElemChoices == {1, WordBits, WordBits + 1, 2 * WordBits}
IndexChoices == {0, WordBits - 1, WordBits, 2 * WordBits - 1}
FlagChoices == {SET_ACTIVE, SET_CAN_BE_FREED}
TagChoices == {TagValue}
SizeChoices == {0, 1, 2, 5}

Init ==
    /\ heap = NoHeap
    /\ pre = heap
    /\ call = Start
    /\ cap = 0

Next ==
    \/ Return
    \/ \E e \in ElemChoices : New("a", e)
    \/ Free("a")
    \/ \E e \in ElemChoices : Null("a", e)
    \/ Reset("a")
    \/ \E e \in ElemChoices : Universe("a", e)
    \/ \E i \in IndexChoices : Get("a", i)
    \/ \E i \in IndexChoices : Set("a", i)
    \/ \E i \in IndexChoices : Clear("a", i)
    \/ \E f \in FlagChoices : SetFlag("a", f)
    \/ \E f \in FlagChoices : ClearFlag("a", f)
    \/ \E v \in TagChoices : SetTag("a", v)
    \/ IncKey("a")
    \/ DecTag("a")
    \/ \E n \in SizeChoices : SetSize("a", n)
    \/ TagOrd("a")
    \/ Ord("a")
    \/ Empty("a")

Spec == Init /\ [][Next]_vars

\* ------------------------------------------------------ pair specification
\* Two bitsets a and b: duplicated, copied onto each other and compared, with
\* elements, flags and tags set on either.
PairElems == {1, WordBits + 1}
PairIndex == {0, WordBits}
PairPtr == {"a", "b"}
PairSizes == {1, 2}

NextPair ==
    \/ Return
    \/ \E p \in PairPtr, e \in PairElems : New(p, e)
    \/ \E p \in PairPtr : Free(p)
    \/ \E p \in PairPtr, i \in PairIndex : Set(p, i)
    \/ \E p \in PairPtr : SetFlag(p, SET_ACTIVE)
    \/ \E p \in PairPtr : SetTag(p, TagValue)
    \/ \E p \in PairPtr : IncKey(p)
    \/ \E p \in PairPtr : DecTag(p)
    \/ \E p \in PairPtr, n \in PairSizes : SetSize(p, n)
    \/ \E p, q \in PairPtr, junk \in {Zero, UINT64_MAX} : Dupl(p, q, junk)
    \/ \E p, q \in PairPtr : Copy(p, q)
    \/ \E p, q \in PairPtr : Equal(p, q)
    \/ \E p, q \in PairPtr : Implies(p, q)
    \/ \E p, q \in PairPtr : ImpliesAlt(p, q)

SpecPair == Init /\ [][NextPair]_vars

\* ----------------------------------------------------- merge specification
\* bitset_merge as a function of its operands: a, b and c are bitsets of one
\* capacity with drawn elements, r is a bitset of that storage (empty, full, or
\* emptied at a smaller capacity), and one merge is made, the operands taken
\* in any order.
RECURSIVE SetAll(_, _)
SetAll(set, S) ==
    IF S = {} THEN set
    ELSE LET i == CHOOSE x \in S : TRUE
         IN SetAll(bitset_set(set, i), S \ {i})

MergeElems == {1, WordBits, WordBits + 1}
MergeIndex(e) == {0, WordBits - 1, WordBits} \cap (0 .. (e - 1))
MergeOperands(e) == {SetAll(bitset_new(e), S) : S \in SUBSET MergeIndex(e)}
MergeResults(e) ==
    {bitset_new(e), bitset_universe(bitset_new(e), e), bitset_null(bitset_new(e), 1)}

InitMerge ==
    /\ \E e \in MergeElems :
         \E sa, sb, sc \in MergeOperands(e), sr \in MergeResults(e) :
            heap = [r |-> sr, a |-> sa, b |-> sb, c |-> sc]
    /\ pre = heap
    /\ call = Start
    /\ cap = 0

NextMerge ==
    \/ \E x, y, z \in {"a", "b", "c"} : Merge("r", x, y, z)
    \/ \E x, y, z \in {"a", "b", "c"} : SymmetricDiffUnion("r", x, y, z)

SpecMerge == InitMerge /\ [][NextMerge]_vars

\* --------------------------------------------------- algebra specification
\* Three bitsets of one capacity, cap, under every sequence of the operations
\* that write a payload: a and b exist from the start, r comes and goes.
AlgPtr == {"r", "a", "b"}
AlgCaps == {1, WordBits - 1, WordBits, AlgElems}
AlgIndex == {0, cap - 1}

InitAlg ==
    /\ cap \in AlgCaps
    /\ heap = [NoHeap EXCEPT !["a"] = bitset_new(cap), !["b"] = bitset_new(cap)]
    /\ pre = heap
    /\ call = Start

NextAlg ==
    \/ Return
    \/ New("r", cap)
    \/ \E junk \in {Zero, UINT64_MAX} : Dupl("r", "a", junk)
    \/ Free("r")
    \/ \E p \in AlgPtr : Null(p, cap)
    \/ \E p \in AlgPtr : Reset(p)
    \/ \E p \in AlgPtr : Universe(p, cap)
    \/ \E p \in AlgPtr, i \in AlgIndex : Set(p, i)
    \/ \E p \in AlgPtr, i \in AlgIndex : Clear(p, i)
    \/ \E p, q \in AlgPtr : Copy(p, q)
    \/ \E p, q, s \in AlgPtr : And(p, q, s)
    \/ \E p, q, s \in AlgPtr : Or(p, q, s)
    \/ \E p, q, s \in AlgPtr : Diff(p, q, s)
    \/ \E p, q, s \in AlgPtr : Xand(p, q, s)
    \/ \E p, q, s, t \in AlgPtr : SymmetricDiffUnion(p, q, s, t)
    \/ \E p, q, s, t \in AlgPtr : Merge(p, q, s, t)
    \/ \E p, q \in AlgPtr : AndInplace(p, q)
    \/ \E p, q \in AlgPtr : OrInplace(p, q)
    \/ \E p, q \in AlgPtr : DiffInplace(p, q)
    \/ \E p, q \in AlgPtr : DiffInplaceAlt(p, q)
    \/ \E p, q \in AlgPtr : MaskInplace(p, q)
    \/ \E p, q \in AlgPtr : Disjoint(p, q)
    \/ \E p, q \in AlgPtr : Dist(p, q)

SpecAlg == InitAlg /\ [][NextAlg]_vars

\* ------------------------------------------------------- tag specification
\* One bitset whose capacity reaches past what the 16-bit tag can count.
TagWrap == 2 ^ TagBits
TagElems == {WordBits, TagWrap - 1, TagWrap, TagWrap + 1}
TagIndex == {0, TagWrap - 1}

NextTag ==
    \/ Return
    \/ \E e \in TagElems : New("a", e)
    \/ Free("a")
    \/ \E e \in TagElems : Universe("a", e)
    \/ \E i \in TagIndex : Set("a", i)
    \/ \E i \in TagIndex : Clear("a", i)
    \/ SetFlag("a", SET_ACTIVE)
    \/ IncKey("a")
    \/ DecTag("a")
    \/ TagOrd("a")
    \/ Ord("a")

SpecTag == Init /\ [][NextTag]_vars

\* ================================================================== claims
\* ceil(n / 64), and the elements a payload holds, read off the lanes.
Ceil64(n) == (n + (WordBits - 1)) \div WordBits
Elements(set) ==
    UNION {{WordBits * (w - 1) + bit : bit \in set[w]} : w \in 1 .. bitset_get_size(set)}
Payload(set) == [w \in 1 .. bitset_get_size(set) |-> set[w]]

\* C1: after bitset_universe(set, n), for a valid n, bitset_ord is n,
\* bitset_get is true of every i < n, no payload lane has a bit at an element
\* index >= n, and the size field is ceil(n / 64).
C1_Universe ==
    call.op = "universe" =>
        LET set == heap[call.r]
            n == call.n
        IN /\ bitset_ord(set) = n
           /\ \A i \in 0 .. (n - 1) : bitset_get(set, i)
           /\ \A e \in Elements(set) : e < n
           /\ bitset_get_size(set) = Ceil64(n)

\* bitset_universe(set, 65) on storage that held all ones: the last lane is
\* masked down to one bit.
C1_Witness ==
    /\ call.op = "universe"
    /\ call.n = WordBits + 1
    /\ pre[call.r][2] = UINT64_MAX
    /\ heap[call.r][2] = {0}

\* C2: bitset_new(elements) returns, for every element count, a bitset of
\* ceil(elements / 64) + 1 lanes whose size field is ceil(elements / 64), whose
\* payload lanes are zero (bitset_empty) and whose flags and tag are zero.
C2_New ==
    call.op = "new" =>
        /\ call.ret = 1
        /\ LET set == heap[call.r]
               n == call.n
           IN /\ Lanes(set) = Ceil64(n) + 1
              /\ bitset_get_size(set) = Ceil64(n)
              /\ \A w \in 1 .. Ceil64(n) : set[w] = Zero
              /\ bitset_empty(set)
              /\ bitset_get_flags(set) = Zero
              /\ bitset_get_tag(set) = 0

\* The same of the element counts from 1 on, which holds.
C2_NewPositive == call.n >= 1 => C2_New

\* C3, as stated: after bitset_tag_ord(set) the tag equals bitset_ord(set), and
\* the payload, the size and the flags are as before.
C3_TagOrdExact ==
    call.op = "tag_ord" =>
        LET set == heap[call.r]
            old == pre[call.r]
        IN /\ bitset_get_tag(set) = bitset_ord(set)
           /\ Payload(set) = Payload(old)
           /\ bitset_get_size(set) = bitset_get_size(old)
           /\ bitset_get_flags(set) = bitset_get_flags(old)

\* C3, amended: after bitset_tag_ord(set) the tag equals bitset_ord(set)
\* modulo 2^16, so the cardinality itself whenever that is below 65536, and the
\* payload, the size and the flags are as before.
C3_TagOrdMod ==
    call.op = "tag_ord" =>
        LET set == heap[call.r]
            old == pre[call.r]
        IN /\ bitset_get_tag(set) = bitset_ord(old) % TagWrap
           /\ (bitset_ord(old) < TagWrap => bitset_get_tag(set) = bitset_ord(set))
           /\ Payload(set) = Payload(old)
           /\ bitset_get_size(set) = bitset_get_size(old)
           /\ bitset_get_flags(set) = bitset_get_flags(old)

\* bitset_tag_ord on a flagged bitset of more than 65535 elements.
C3_Witness ==
    /\ call.op = "tag_ord"
    /\ bitset_ord(heap[call.r]) > TagWrap
    /\ bitset_get_tag(heap[call.r]) = 1
    /\ bitset_get_flag(heap[call.r], SET_ACTIVE)

\* C4: after bitset_merge(r, a, b, c), r distinct from the operands, element i
\* of r is a's where c's is 1 and b's where c's is 0, lane for lane
\* r = (a & c) | (b & ~c), r's size is a's, and a, b and c are unchanged.
C4_Merge ==
    call.op = "merge" =>
        LET r == heap[call.r]
            a == pre[call.a]
            b == pre[call.b]
            c == pre[call.c]
        IN /\ \A i \in 0 .. (WordBits * bitset_get_size(a) - 1) :
                bitset_get(r, i) = IF bitset_get(c, i) THEN bitset_get(a, i)
                                   ELSE bitset_get(b, i)
           /\ \A w \in 1 .. bitset_get_size(a) :
                r[w] = (a[w] \cap c[w]) \cup (b[w] \ c[w])
           /\ bitset_get_size(r) = bitset_get_size(a)
           /\ \A p \in {call.a, call.b, call.c} : heap[p] = pre[p]

\* A merge of three distinct operands whose result is neither a nor b, into
\* an r that named another size before.
C4_Witness ==
    /\ call.op = "merge"
    /\ Cardinality({call.a, call.b, call.c}) = 3
    /\ Payload(heap[call.r]) # Payload(heap[call.a])
    /\ Payload(heap[call.r]) # Payload(heap[call.b])
    /\ bitset_get_size(pre[call.r]) # bitset_get_size(heap[call.r])
    /\ bitset_get_size(heap[call.r]) = 2

\* C5: for a and b of one capacity, bitset_equal(a, b) is true exactly when
\* bitset_implies(a, b) and bitset_implies(b, a) both are, whatever the flags
\* and the tags.
C5_Antisymmetry ==
    call.op = "equal" =>
        ((call.ret = 1) <=>
            (/\ bitset_implies(heap[call.a], heap[call.b])
             /\ bitset_implies(heap[call.b], heap[call.a])))

\* Two distinct, non-empty two-lane bitsets with different headers found equal.
C5_Witness ==
    /\ call.op = "equal"
    /\ call.ret = 1
    /\ call.a # call.b
    /\ bitset_get_size(heap[call.a]) = 2
    /\ bitset_get_flags(heap[call.a]) # bitset_get_flags(heap[call.b])
    /\ bitset_get_tag(heap[call.a]) # bitset_get_tag(heap[call.b])
    /\ bitset_get(heap[call.a], WordBits)

\* C6: bitset_dupl(a) returns storage of size(a) + 1 lanes, each a's; after
\* bitset_copy(dst, a), dst's header lane and payload lanes 1 .. size(a) are
\* a's (so a dst of a's length, such as a duplicate of a, is a lane for lane);
\* a is unchanged by either.
C6_DuplCopy ==
    /\ (call.op = "dupl" /\ call.ret = 1) =>
            LET d == heap[call.r]
                a == pre[call.a]
            IN /\ Lanes(d) = bitset_get_size(a) + 1
               /\ \A i \in 0 .. bitset_get_size(a) : d[i] = a[i]
               /\ heap[call.a] = a
    /\ call.op = "copy" =>
            LET d == heap[call.r]
                a == pre[call.a]
            IN /\ d[0] = a[0]
               /\ \A i \in 1 .. bitset_get_size(a) : d[i] = a[i]
               /\ (Lanes(d) = bitset_get_size(a) + 1 =>
                      \A i \in DOMAIN d : d[i] = a[i])
               /\ heap[call.a] = a

\* A copy of a flagged, tagged two-lane bitset onto storage of its length that
\* differed from it in the header and in the last lane.
C6_Witness ==
    /\ call.op = "copy"
    /\ Lanes(heap[call.r]) = bitset_get_size(pre[call.a]) + 1
    /\ bitset_get_size(pre[call.a]) = 2
    /\ pre[call.r][0] # pre[call.a][0]
    /\ pre[call.r][2] # pre[call.a][2]
    /\ bitset_get_flag(heap[call.r], SET_ACTIVE)
    /\ bitset_get_tag(heap[call.r]) = TagValue

\* C7: after bitset_reset(a) the size field is what it was, every payload lane
\* is zero, bitset_empty is true and bitset_ord is 0.
C7_Reset ==
    call.op = "reset" =>
        LET set == heap[call.r]
            old == pre[call.r]
        IN /\ bitset_get_size(set) = bitset_get_size(old)
           /\ \A w \in 1 .. bitset_get_size(old) : set[w] = Zero
           /\ bitset_empty(set)
           /\ bitset_ord(set) = 0

\* A reset of a two-lane bitset with elements in both lanes.
C7_Witness ==
    /\ call.op = "reset"
    /\ bitset_get_size(pre[call.r]) = 2
    /\ pre[call.r][1] # Zero
    /\ pre[call.r][2] # Zero

\* C8: for i below the capacity, bitset_get(set, i) is true after
\* bitset_set(set, i) and false after bitset_clear(set, i); every other
\* element and the header lane are unchanged; the element is bit i & 63 of lane
\* 1 + (i >> 6), the only lane written.
C8_SetClear ==
    call.op \in {"set", "clear"} =>
        LET set == heap[call.r]
            old == pre[call.r]
            i == call.n
            lane == 1 + (i \div WordBits)
        IN /\ bitset_get(set, i) = (call.op = "set")
           /\ \A j \in 0 .. (WordBits * bitset_get_size(old) - 1) :
                j # i => bitset_get(set, j) = bitset_get(old, j)
           /\ set[0] = old[0]
           /\ ((i % WordBits) \in set[lane]) = (call.op = "set")
           /\ \A k \in DOMAIN set : k # lane => set[k] = old[k]

\* Element 64 cleared in a flagged bitset whose elements 63 and 127 stay set.
C8_Witness ==
    /\ call.op = "clear"
    /\ call.n = WordBits
    /\ bitset_get(pre[call.r], WordBits)
    /\ bitset_get(heap[call.r], WordBits - 1)
    /\ bitset_get(heap[call.r], 2 * WordBits - 1)
    /\ bitset_get_flag(heap[call.r], SET_ACTIVE)

\* C9: bitset_reset, bitset_null and bitset_universe overwrite the whole header
\* lane: after any of them the flags and the tag are zero whatever they held,
\* and only the size field is set again.
C9_HeaderCleared ==
    call.op \in {"reset", "null", "universe"} =>
        LET set == heap[call.r]
            old == pre[call.r]
        IN /\ bitset_get_flags(set) = Zero
           /\ bitset_get_tag(set) = 0
           /\ set[0] = StoreField(Zero, SizeLo, SizeBits, Field(set[0], SizeLo, SizeBits))
           /\ bitset_get_size(set) =
                IF call.op = "reset" THEN bitset_get_size(old) ELSE Ceil64(call.n)

\* A reset of a bitset that carried both flags and a tag.
C9_Witness ==
    /\ call.op = "reset"
    /\ bitset_get_flag(pre[call.r], SET_ACTIVE)
    /\ bitset_get_flag(pre[call.r], SET_CAN_BE_FREED)
    /\ bitset_get_tag(pre[call.r]) = TagValue
    /\ heap[call.r][0] # pre[call.r][0]

\* C10: among bitsets of one capacity n, under any sequence of the creating,
\* filling, element and algebra operations, no payload lane has a bit at an
\* element index >= n, so bitset_ord(set) <= n.
C10_PaddingClear ==
    \A p \in Ptr :
        heap[p] # NULL =>
            /\ \A e \in Elements(heap[p]) : e < cap
            /\ bitset_ord(heap[p]) <= cap

\* A difference whose subtrahend is empty, in a capacity with padding in its
\* second lane: every element below n, none above.
C10_Witness ==
    /\ call.op = "diff"
    /\ cap = AlgElems
    /\ bitset_ord(heap[call.r]) = cap
    /\ bitset_empty(heap[call.b])
    /\ pre[call.r] # heap[call.r]

====
